---- MODULE Spec2Model ----
(***************************************************************************)
(* Model of the document formatting route, src/app/api/format/route.ts.    *)
(*                                                                         *)
(* A JavaScript string is a sequence of one-character strings.  The        *)
(* no-break space U+00A0 is written "~"; the curly quotes U+201C, U+201D,  *)
(* U+2018 and U+2019 are written "ldq", "rdq", "lsq" and "rsq".  The       *)
(* serialised inner HTML of an element is a sequence of HTML tokens: a     *)
(* character, the entity "&nbsp;" or the void element "<br>".              *)
(*                                                                         *)
(* The children of div.docx-root are element records                       *)
(*   [id, tag, title, onclick, kids]                                       *)
(* where kids is the element's inline content: characters and "<br>".      *)
(***************************************************************************)
EXTENDS Integers, Sequences, FiniteSets, TLC

VARIABLES
    pc,            \* position of the request inside POST
    req,           \* the multipart request being handled
    chosenPreset,  \* POST's chosenPreset
    options,       \* POST's options
    tree,          \* the cheerio document $ (children of div.docx-root)
    stages,        \* pipeline stages executed for this request, in order
    built,         \* result of buildHtmlDocument
    blob,          \* result of htmlDocx.asBlob
    response,      \* what the caller receives
    log,           \* console.error output
    input,         \* argument of the function applied (function specifications)
    output,        \* its result
    phase          \* "in" before the function has been applied, then "out"

vars == <<pc, req, chosenPreset, options, tree, stages, built, blob, response, log,
          input, output, phase>>

----------------------------------------------------------------------------
(* Bounds *)

\* longest heading text given to toTitleCase
MaxTitleLen == 5
\* longest text content given to applySmartQuotes
MaxQuoteLen == 4
\* longest inner HTML of the paragraph of a one-paragraph document
MaxHtmlLen == 4
\* most sibling elements of a document given to normalizeSpacing
MaxBlocks == 3

----------------------------------------------------------------------------
(* Strings *)

RECURSIVE SeqsUpTo(_, _)
SeqsUpTo(S, n) ==
    IF n = 0 THEN {<<>>}
    ELSE LET shorter == SeqsUpTo(S, n - 1)
         IN  shorter \cup {Append(s, c) : s \in {t \in shorter : Len(t) = n - 1}, c \in S}

LowerLetters == <<"a","b","c","d","e","f","g","h","i","j","k","l","m",
                  "n","o","p","q","r","s","t","u","v","w","x","y","z">>
UpperLetters == <<"A","B","C","D","E","F","G","H","I","J","K","L","M",
                  "N","O","P","Q","R","S","T","U","V","W","X","Y","Z">>

toLowerCase(c) ==
    IF \E i \in 1..26 : UpperLetters[i] = c
    THEN LowerLetters[CHOOSE i \in 1..26 : UpperLetters[i] = c]
    ELSE c

toUpperCase(c) ==
    IF \E i \in 1..26 : LowerLetters[i] = c
    THEN UpperLetters[CHOOSE i \in 1..26 : LowerLetters[i] = c]
    ELSE c

\* the regular expression class \s, on the characters of the model
IsSpace(c) == c \in {" ", "\t", "~"}

RECURSIVE Join(_, _)
Join(parts, sep) ==
    IF Len(parts) = 0 THEN <<>>
    ELSE IF Len(parts) = 1 THEN parts[1]
    ELSE parts[1] \o <<sep>> \o Join(Tail(parts), sep)

\* String.prototype.split(/\s+/): every maximal run of whitespace ends a part;
\* a part may be empty (leading or trailing whitespace, the empty string)
RECURSIVE SplitSpacesFrom(_, _, _, _)
SplitSpacesFrom(s, i, cur, acc) ==
    IF i > Len(s) THEN Append(acc, cur)
    ELSE IF IsSpace(s[i])
         THEN IF i > 1 /\ IsSpace(s[i - 1])
              THEN SplitSpacesFrom(s, i + 1, cur, acc)
              ELSE SplitSpacesFrom(s, i + 1, <<>>, Append(acc, cur))
         ELSE SplitSpacesFrom(s, i + 1, Append(cur, s[i]), acc)

SplitSpaces(s) == SplitSpacesFrom(s, 1, <<>>, <<>>)

\* String.prototype.split("-"): every hyphen ends a part; a part may be empty
RECURSIVE SplitHyphensFrom(_, _, _, _)
SplitHyphensFrom(s, i, cur, acc) ==
    IF i > Len(s) THEN Append(acc, cur)
    ELSE IF s[i] = "-"
         THEN SplitHyphensFrom(s, i + 1, <<>>, Append(acc, cur))
         ELSE SplitHyphensFrom(s, i + 1, Append(cur, s[i]), acc)

SplitHyphens(s) == SplitHyphensFrom(s, 1, <<>>, <<>>)

\* String.prototype.trim
RECURSIVE TrimStart(_)
TrimStart(s) == IF Len(s) > 0 /\ IsSpace(s[1]) THEN TrimStart(Tail(s)) ELSE s

RECURSIVE TrimEnd(_)
TrimEnd(s) ==
    IF Len(s) > 0 /\ IsSpace(s[Len(s)]) THEN TrimEnd(SubSeq(s, 1, Len(s) - 1)) ELSE s

Trim(s) == TrimEnd(TrimStart(s))

----------------------------------------------------------------------------
(* toTitleCase *)

smallWords ==
    { <<"a","n","d">>, <<"o","r">>, <<"t","h","e">>, <<"o","f">>, <<"f","o","r">>,
      <<"i","n">>, <<"o","n">>, <<"t","o">>, <<"a">>, <<"a","n">>, <<"w","i","t","h">> }

\* part.charAt(0).toUpperCase() + part.slice(1)
Capitalize(part) ==
    IF Len(part) = 0 THEN <<>> ELSE <<toUpperCase(part[1])>> \o Tail(part)

\* the callback of words.map; index counts from 0 and count is words.length
TitleWord(word, index, count) ==
    IF Len(word) = 0 THEN <<>>
    ELSE IF \E i \in 1..Len(word) : word[i] = "-"
    THEN LET parts == SplitHyphens(word)
         IN  Join([i \in 1..Len(parts) |-> Capitalize(parts[i])], "-")
    ELSE IF index # 0 /\ index # count - 1 /\ word \in smallWords
    THEN word
    ELSE Capitalize(word)

toTitleCase(text) ==
    LET lower == [i \in 1..Len(text) |-> toLowerCase(text[i])]
        words == SplitSpaces(lower)
    IN  Join([i \in 1..Len(words) |-> TitleWord(words[i], i - 1, Len(words))], " ")

----------------------------------------------------------------------------
(* convertSmartQuotes *)

\* the class [\s([{<]
IsOpener(c) == IsSpace(c) \/ c \in {"(", "[", "{", "<"}

\* ReplaceOpening without the alternative ^ of its pattern
RECURSIVE ReplaceOpeningNoStart(_, _, _, _)
ReplaceOpeningNoStart(s, q, open, i) ==
    IF i > Len(s) THEN <<>>
    ELSE IF IsOpener(s[i]) /\ i < Len(s) /\ s[i + 1] = q
    THEN <<s[i], open>> \o ReplaceOpeningNoStart(s, q, open, i + 2)
    ELSE <<s[i]>> \o ReplaceOpeningNoStart(s, q, open, i + 1)

\* value.replace(/(^|[\s([{<])q/g, "$1" + open): the scan of a global replace,
\* each match consuming the prefix character and the quote
RECURSIVE ReplaceOpening(_, _, _, _)
ReplaceOpening(s, q, open, i) ==
    IF i > Len(s) THEN <<>>
    ELSE IF i = 1 /\ s[i] = q
    THEN <<open>> \o ReplaceOpening(s, q, open, i + 1)
    ELSE IF IsOpener(s[i]) /\ i < Len(s) /\ s[i + 1] = q
    THEN <<s[i], open>> \o ReplaceOpening(s, q, open, i + 2)
    ELSE <<s[i]>> \o ReplaceOpening(s, q, open, i + 1)

\* value.replace(/q/g, close)
ReplaceAll(s, q, close) == [i \in 1..Len(s) |-> IF s[i] = q THEN close ELSE s[i]]

convertSmartQuotes(value) ==
    LET r1 == ReplaceOpening(value, "\"", "ldq", 1)
        r2 == ReplaceAll(r1, "\"", "rdq")
        r3 == ReplaceOpening(r2, "'", "lsq", 1)
        r4 == ReplaceAll(r3, "'", "rsq")
    IN  r4

----------------------------------------------------------------------------
(* The markup tree *)

Element(id, tag, title, onclick, kids) ==
    [id |-> id, tag |-> tag, title |-> title, onclick |-> onclick, kids |-> kids]

\* el.html(): the serialiser writes U+00A0 as the entity &nbsp;
Html(kids) == [i \in 1..Len(kids) |-> IF kids[i] = "~" THEN "&nbsp;" ELSE kids[i]]

\* el.html(markup): the parser reads the entity &nbsp; as U+00A0
ParseHtml(html) == [i \in 1..Len(html) |-> IF html[i] = "&nbsp;" THEN "~" ELSE html[i]]

IsChar(token) == token # "<br>"

\* el.text(): the characters of the text nodes below the element
Text(kids) == SelectSeq(kids, IsChar)

WithKids(el, kids) == [el EXCEPT !.kids = kids]

RemoveAt(t, k) == SubSeq(t, 1, k - 1) \o SubSeq(t, k + 1, Len(t))

----------------------------------------------------------------------------
(* normalizeSpacing *)

\* .replace(/&nbsp;/g, " ")
ReplaceNbsp(html) == [i \in 1..Len(html) |-> IF html[i] = "&nbsp;" THEN " " ELSE html[i]]

\* index of the last character of the whitespace run that starts at i
RECURSIVE RunEnd(_, _)
RunEnd(s, i) == IF i < Len(s) /\ IsSpace(s[i + 1]) THEN RunEnd(s, i + 1) ELSE i

\* .replace(/\s{2,}/g, " ")
RECURSIVE CollapseSpaces(_, _)
CollapseSpaces(s, i) ==
    IF i > Len(s) THEN <<>>
    ELSE IF IsSpace(s[i]) /\ RunEnd(s, i) > i
    THEN <<" ">> \o CollapseSpaces(s, RunEnd(s, i) + 1)
    ELSE <<s[i]>> \o CollapseSpaces(s, i + 1)

IsPunctuation(c) == c \in {".", ",", ";", ":", "!", "?"}

\* .replace(/\s+([.,;:!?])/g, "$1")
RECURSIVE StripBeforePunctuation(_, _)
StripBeforePunctuation(s, i) ==
    IF i > Len(s) THEN <<>>
    ELSE IF IsSpace(s[i]) /\ RunEnd(s, i) < Len(s) /\ IsPunctuation(s[RunEnd(s, i) + 1])
    THEN <<s[RunEnd(s, i) + 1]>> \o StripBeforePunctuation(s, RunEnd(s, i) + 2)
    ELSE <<s[i]>> \o StripBeforePunctuation(s, i + 1)

\* NormalizeHtml with the entity replaced after the runs are collapsed
NormalizeHtmlCollapseFirst(html) ==
    Trim(StripBeforePunctuation(ReplaceNbsp(CollapseSpaces(html, 1)), 1))

\* the value of `normalized` for the inner HTML html
NormalizeHtml(html) ==
    Trim(StripBeforePunctuation(CollapseSpaces(ReplaceNbsp(html), 1), 1))

IndexOfId(t, id) == CHOOSE k \in 1..Len(t) : t[k].id = id

\* the callback of $("p").each for the element with this id, on the tree t
NormalizeParagraph(t, id) ==
    LET k == IndexOfId(t, id)
        el == t[k]
        normalized == NormalizeHtml(Html(el.kids))
        \* el.prev("p"): the immediately preceding sibling, when it is a p
        previous == IF k > 1 /\ t[k - 1].tag = "p" THEN <<t[k - 1]>> ELSE <<>>
    IN  IF Len(normalized) = 0
        THEN IF Len(previous) = 0 \/ Len(Trim(Text(previous[1].kids))) = 0
             THEN RemoveAt(t, k)
             ELSE [t EXCEPT ![k] = WithKids(el, <<>>)]
        ELSE [t EXCEPT ![k] = WithKids(el, ParseHtml(normalized))]

RECURSIVE NormalizeEach(_, _)
NormalizeEach(t, ids) ==
    IF Len(ids) = 0 THEN t
    ELSE NormalizeEach(NormalizeParagraph(t, Head(ids)), Tail(ids))

IsParagraph(el) == el.tag = "p"

NotEmptyParagraph(el) == ~(el.tag = "p" /\ Len(el.kids) = 0)

\* $("p:empty").remove()
RemoveEmptyParagraphs(t) == SelectSeq(t, NotEmptyParagraph)

normalizeSpacing(t) ==
    LET paragraphs == SelectSeq(t, IsParagraph)
        ids == [i \in 1..Len(paragraphs) |-> paragraphs[i].id]
    IN  RemoveEmptyParagraphs(NormalizeEach(t, ids))

----------------------------------------------------------------------------
(* applyTitleCase *)

IsHeading123(el) == el.tag \in {"h1", "h2", "h3"}

applyTitleCase(t) ==
    [k \in 1..Len(t) |->
        IF IsHeading123(t[k]) THEN WithKids(t[k], toTitleCase(Text(t[k].kids))) ELSE t[k]]

----------------------------------------------------------------------------
(* applySmartQuotes *)

\* the text nodes of an element are the maximal runs of characters between its
\* child elements; each non-empty one is rewritten, the elements stay
RECURSIVE ConvertTextNodes(_, _, _)
ConvertTextNodes(kids, i, cur) ==
    IF i > Len(kids) THEN convertSmartQuotes(cur)
    ELSE IF IsChar(kids[i])
    THEN ConvertTextNodes(kids, i + 1, Append(cur, kids[i]))
    ELSE convertSmartQuotes(cur) \o <<kids[i]>> \o ConvertTextNodes(kids, i + 1, <<>>)

applySmartQuotes(t) ==
    [k \in 1..Len(t) |-> WithKids(t[k], ConvertTextNodes(t[k].kids, 1, <<>>))]

----------------------------------------------------------------------------
(* Function specifications: one transform applied to bounded inputs *)

NoRequest == [body |-> "none"]

HandlerIdle ==
    /\ pc = "idle"
    /\ req = NoRequest
    /\ chosenPreset = ""
    /\ options = <<>>
    /\ tree = <<>>
    /\ stages = <<>>
    /\ built = <<>>
    /\ blob = <<>>
    /\ response = <<>>
    /\ log = <<>>

TitleChars == {"a", "n", "A", " ", "-"}

InitTitle ==
    /\ HandlerIdle
    /\ \E text \in SeqsUpTo(TitleChars, MaxTitleLen) :
          input = <<Element(1, "h1", <<>>, FALSE, text)>>
    /\ output = <<>>
    /\ phase = "in"

TitleCase ==
    /\ phase = "in"
    /\ output' = <<applyTitleCase(input)>>
    /\ phase' = "out"
    /\ UNCHANGED <<input, pc, req, chosenPreset, options, tree, stages, built, blob,
                   response, log>>

NextTitle == TitleCase

SpecTitle == InitTitle /\ [][NextTitle]_vars

QuoteTokens == {"a", " ", "(", "\"", "'", "<br>"}

QuoteTitles == {<<>>, <<"\"", "a", "'">>}

InitQuotes ==
    /\ HandlerIdle
    /\ \E kids \in SeqsUpTo(QuoteTokens, MaxQuoteLen), title \in QuoteTitles :
          input = <<Element(1, "p", title, FALSE, kids)>>
    /\ output = <<>>
    /\ phase = "in"

SmartQuotes ==
    /\ phase = "in"
    /\ output' = <<applySmartQuotes(input)>>
    /\ phase' = "out"
    /\ UNCHANGED <<input, pc, req, chosenPreset, options, tree, stages, built, blob,
                   response, log>>

NextQuotes == SmartQuotes

SpecQuotes == InitQuotes /\ [][NextQuotes]_vars

SpacingTokens == {"a", " ", "\t", "~", ".", "<br>"}

\* the siblings of the documents of several elements
SiblingKinds ==
    {[tag |-> "p", kids |-> k] :
        k \in {<<>>, <<"a">>, <<" ">>, <<"~">>, <<".">>, <<"<br>">>}}
    \cup {[tag |-> "h1", kids |-> <<"a">>]}

WithIds(kinds) ==
    [i \in 1..Len(kinds) |-> Element(i, kinds[i].tag, <<>>, FALSE, kinds[i].kids)]

SpacingDocuments ==
    {<<Element(1, "p", <<>>, FALSE, kids)>> : kids \in SeqsUpTo(SpacingTokens, MaxHtmlLen)}
    \cup {WithIds(kinds) : kinds \in SeqsUpTo(SiblingKinds, MaxBlocks)}

InitSpacing ==
    /\ HandlerIdle
    /\ input \in SpacingDocuments
    /\ output = <<>>
    /\ phase = "in"

\* normalizeSpacing applied to the document
Normalize ==
    /\ phase = "in"
    /\ output' = <<normalizeSpacing(input)>>
    /\ phase' = "out"
    /\ UNCHANGED <<input, pc, req, chosenPreset, options, tree, stages, built, blob,
                   response, log>>

\* normalizeSpacing applied to its own result
NormalizeAgain ==
    /\ phase = "out"
    /\ output' = Append(output, normalizeSpacing(output[1]))
    /\ phase' = "again"
    /\ UNCHANGED <<input, pc, req, chosenPreset, options, tree, stages, built, blob,
                   response, log>>

NextSpacing == Normalize \/ NormalizeAgain

SpecSpacing == InitSpacing /\ [][NextSpacing]_vars

----------------------------------------------------------------------------
(* The request handler POST *)

\* a FormDataEntryValue | null: t is "null", "str" or "file"; a file entry
\* carries the name of the uploaded file
Null == [t |-> "null", v |-> ""]
Str(s) == [t |-> "str", v |-> s]
FileEntry(name) == [t |-> "file", v |-> name]

PresetIds == {"classic", "modern", "executive"}

PRESET_CONFIG ==
    [id \in PresetIds |->
        CASE id = "classic" ->
               [fontFamily |-> "\"Times New Roman\", Times, serif",
                headingFont |-> "\"Times New Roman\", Times, serif",
                bodySize |-> "12", headingWeight |-> "600", lineHeight |-> "1.5",
                paragraphSpacing |-> "14", accent |-> "#1d4ed8",
                pageMargin |-> "1in", background |-> "#f8fafc"]
          [] id = "modern" ->
               [fontFamily |-> "\"Calibri\", \"Segoe UI\", sans-serif",
                headingFont |-> "\"Source Sans Pro\", \"Calibri\", \"Segoe UI\", sans-serif",
                bodySize |-> "11", headingWeight |-> "600", lineHeight |-> "1.65",
                paragraphSpacing |-> "16", accent |-> "#0f766e",
                pageMargin |-> "0.9in", background |-> "#f0fdfa"]
          [] id = "executive" ->
               [fontFamily |-> "\"Helvetica Neue\", Arial, sans-serif",
                headingFont |-> "Georgia, 'Times New Roman', serif",
                bodySize |-> "11", headingWeight |-> "700", lineHeight |-> "1.58",
                paragraphSpacing |-> "15", accent |-> "#a16207",
                pageMargin |-> "1in 1.15in 1in 1.15in", background |-> "#fffbeb"]]

\* PRESET_CONFIG is an object literal: besides its three own properties, a
\* property read finds the members it inherits from Object.prototype
ObjectPrototypeKeys ==
    {"constructor", "toString", "toLocaleString", "valueOf", "hasOwnProperty",
     "isPrototypeOf", "propertyIsEnumerable", "__proto__"}

\* the value of PRESET_CONFIG[key]: a preset record, an inherited member
\* (truthy, with none of the preset fields) or undefined
PresetLookup(key) ==
    IF key \in PresetIds THEN [kind |-> "preset", fields |-> PRESET_CONFIG[key]]
    ELSE IF key \in ObjectPrototypeKeys THEN [kind |-> "inherited", fields |-> <<>>]
    ELSE [kind |-> "undefined", fields |-> <<>>]

Truthy(value) == value.kind # "undefined"

\* ${preset.field} in a template literal
Interpolate(config, field) ==
    IF config.kind = "preset" THEN config.fields[field] ELSE "undefined"

\* (formData.get("preset") as StylePresetId) || "classic", as a property key
PresetKey(entry) ==
    IF entry.t = "null" \/ (entry.t = "str" /\ entry.v = "") THEN "classic"
    ELSE IF entry.t = "file" THEN "[object File]"
    ELSE entry.v

ResolvePreset(entry) ==
    IF Truthy(PresetLookup(PresetKey(entry))) THEN PresetKey(entry) ELSE "classic"

\* parseBoolean that ignores its fallback
parseBooleanNoFallback(value, fallback) ==
    IF value.t # "str" THEN FALSE ELSE value.v = "true" \/ value.v = "1"

parseBoolean(value, fallback) ==
    IF value.t # "str" THEN fallback ELSE value.v = "true" \/ value.v = "1"

ParseOptions(r) ==
    [justify |-> parseBoolean(r.justify, TRUE),
     tidySpacing |-> parseBoolean(r.tidySpacing, TRUE),
     titleCaseHeadings |-> parseBoolean(r.titleCaseHeadings, TRUE),
     autoNumberHeadings |-> parseBoolean(r.autoNumberHeadings, FALSE),
     convertQuotes |-> parseBoolean(r.convertQuotes, TRUE)]

\* file instanceof File, with only the presence of the field tested
IsFilePresent(entry) == entry.t # "null"

\* file instanceof File
IsFile(entry) == entry.t = "file"

\* the documents the uploads of the model decode to
Docs ==
    [name \in {"report", "memo"} |->
        IF name = "report"
        THEN << Element(1, "h1", <<"\"", "a">>, FALSE, <<" ", "a", "<br>", "\"", "n", "\"">>),
                Element(2, "p", <<>>, TRUE, <<"a", " ", "~", ".", "'">>),
                Element(3, "p", <<>>, FALSE, <<" ">>),
                Element(4, "script", <<>>, FALSE, <<"'", "a">>) >>
        ELSE << Element(1, "p", <<"'">>, FALSE, <<"~">>),
                Element(2, "p", <<>>, FALSE, <<"(", "'", "a", "'", " ", " ", "\"">>),
                Element(3, "h4", <<>>, FALSE, <<"a", " ", "a">>),
                Element(4, "h2", <<>>, TRUE, <<"A", "N", " ", "a", "-", "n", " ">>) >>]

\* mammoth.convertToHtml throws on bytes that are no .docx archive
MammothThrows(name) == name \notin DOMAIN Docs

\* $(".docx-root").html(): the elements with their content serialised
Serialize(t) == [k \in 1..Len(t) |-> WithKids(t[k], Html(t[k].kids))]

IsSafeElement(el) == el.tag # "script"

\* DOMPurify.sanitize: script elements and event-handler attributes are dropped
Sanitize(markup) ==
    LET kept == SelectSeq(markup, IsSafeElement)
    IN  [k \in 1..Len(kept) |-> [kept[k] EXCEPT !.onclick = FALSE]]

buildStyleSheet(preset, opts) ==
    [pageMargin |-> Interpolate(preset, "pageMargin"),
     fontFamily |-> Interpolate(preset, "fontFamily"),
     bodySize |-> Interpolate(preset, "bodySize"),
     lineHeight |-> Interpolate(preset, "lineHeight"),
     background |-> Interpolate(preset, "background"),
     paragraphSpacing |-> Interpolate(preset, "paragraphSpacing"),
     textAlign |-> IF opts.justify THEN "justify" ELSE "left",
     headingFont |-> Interpolate(preset, "headingFont"),
     headingWeight |-> Interpolate(preset, "headingWeight"),
     accent |-> Interpolate(preset, "accent"),
     numbering |-> opts.autoNumberHeadings]

\* buildHtmlDocument whose preview embeds the markup it was given
buildHtmlDocumentRawPreview(bodyMarkup, preset, opts) ==
    LET stylesheet == buildStyleSheet(PresetLookup(preset), opts)
    IN  [documentHtml |-> [wrap |-> "document", style |-> stylesheet,
                           content |-> Sanitize(bodyMarkup)],
         previewHtml |-> [wrap |-> "preview", style |-> stylesheet,
                          content |-> bodyMarkup]]

buildHtmlDocument(bodyMarkup, preset, opts) ==
    LET config == PresetLookup(preset)
        stylesheet == buildStyleSheet(config, opts)
        sanitizedContent == Sanitize(bodyMarkup)
    IN  [documentHtml |-> [wrap |-> "document", style |-> stylesheet,
                           content |-> sanitizedContent],
         previewHtml |-> [wrap |-> "preview", style |-> stylesheet,
                          content |-> sanitizedContent]]

\* htmlDocx.asBlob
asBlob(documentHtml) == [type |-> "docx", html |-> documentHtml]

\* Buffer.from(await docxBlob.arrayBuffer()).toString("base64")
Base64(b) == [encoding |-> "base64", bytes |-> b]

ValidationError == [status |-> 400, body |-> [error |-> "Upload a valid .docx file."]]

PipelineError ==
    [status |-> 500,
     body |-> [error |-> "We could not format that document. Please ensure it is a valid .docx exported from Word."]]

Success(base64, previewHtml, appliedPreset) ==
    [status |-> 200,
     body |-> [base64 |-> base64, previewHtml |-> previewHtml,
               appliedPreset |-> appliedPreset]]

\* the values a form field takes in the requests of the model
FlagEntries == {Null, Str("true"), Str("1"), Str("no"), FileEntry("memo")}

PresetEntries ==
    {Null, Str(""), Str("classic"), Str("modern"), Str("executive"), Str("bogus"),
     Str("constructor"), FileEntry("memo")}

FileEntries ==
    {Null, Str("report"), FileEntry("corrupt"), FileEntry("report"), FileEntry("memo")}

Requests ==
    {[body |-> "form", file |-> f, preset |-> p, justify |-> j, tidySpacing |-> ts,
      titleCaseHeadings |-> tc, autoNumberHeadings |-> an, convertQuotes |-> cq] :
        f \in FileEntries, p \in PresetEntries, j \in FlagEntries, ts \in FlagEntries,
        tc \in FlagEntries, an \in FlagEntries, cq \in FlagEntries}
    \cup
    \* a body request.formData() cannot parse
    {[body |-> "malformed", file |-> Null, preset |-> Null, justify |-> Null,
      tidySpacing |-> Null, titleCaseHeadings |-> Null, autoNumberHeadings |-> Null,
      convertQuotes |-> Null]}

Init ==
    /\ pc = "start"
    /\ req \in Requests
    /\ chosenPreset = ""
    /\ options = <<>>
    /\ tree = <<>>
    /\ stages = <<>>
    /\ built = <<>>
    /\ blob = <<>>
    /\ response = <<>>
    /\ log = <<>>
    /\ input = <<>>
    /\ output = <<>>
    /\ phase = "idle"

\* await request.formData(), outside the try block: when it rejects, POST
\* rejects and has built no response
FormData ==
    /\ pc = "start"
    /\ pc' = IF req.body = "form" THEN "validate" ELSE "rejected"
    /\ UNCHANGED <<req, chosenPreset, options, tree, stages, built, blob, response, log,
                   input, output, phase>>

\* the check of the file field, then the preset and the options
Validate ==
    /\ pc = "validate"
    /\ IF ~IsFile(req.file)
       THEN /\ response' = <<ValidationError>>
            /\ pc' = "done"
            /\ UNCHANGED <<chosenPreset, options>>
       ELSE /\ chosenPreset' = ResolvePreset(req.preset)
            /\ options' = <<ParseOptions(req)>>
            /\ pc' = "decode"
            /\ UNCHANGED response
    /\ UNCHANGED <<req, tree, stages, built, blob, log, input, output, phase>>

\* file.arrayBuffer(), mammoth.convertToHtml and load; a throw is caught by
\* the catch block, which logs it and answers 500
Decode ==
    /\ pc = "decode"
    /\ stages' = Append(stages, "decode")
    /\ IF MammothThrows(req.file.v)
       THEN /\ log' = Append(log, <<"[format-api]", "decode">>)
            /\ response' = <<PipelineError>>
            /\ pc' = "done"
            /\ UNCHANGED tree
       ELSE /\ tree' = Docs[req.file.v]
            /\ pc' = "tidy"
            /\ UNCHANGED <<log, response>>
    /\ UNCHANGED <<req, chosenPreset, options, built, blob, input, output, phase>>

\* TitleCaseStep taken on the flag of the spacing normalisation
TitleCaseStepOnTidyFlag ==
    /\ pc = "title"
    /\ IF options[1].tidySpacing
       THEN /\ tree' = applyTitleCase(tree)
            /\ stages' = Append(stages, "applyTitleCase")
       ELSE UNCHANGED <<tree, stages>>
    /\ pc' = "quotes"
    /\ UNCHANGED <<req, chosenPreset, options, built, blob, response, log,
                   input, output, phase>>

\* if (options.tidySpacing) normalizeSpacing($)
TidyStep ==
    /\ pc = "tidy"
    /\ IF options[1].tidySpacing
       THEN /\ tree' = normalizeSpacing(tree)
            /\ stages' = Append(stages, "normalizeSpacing")
       ELSE UNCHANGED <<tree, stages>>
    /\ pc' = "title"
    /\ UNCHANGED <<req, chosenPreset, options, built, blob, response, log,
                   input, output, phase>>

\* if (options.titleCaseHeadings) applyTitleCase($)
TitleCaseStep ==
    /\ pc = "title"
    /\ IF options[1].titleCaseHeadings
       THEN /\ tree' = applyTitleCase(tree)
            /\ stages' = Append(stages, "applyTitleCase")
       ELSE UNCHANGED <<tree, stages>>
    /\ pc' = "quotes"
    /\ UNCHANGED <<req, chosenPreset, options, built, blob, response, log,
                   input, output, phase>>

\* if (options.convertQuotes) applySmartQuotes($)
QuotesStep ==
    /\ pc = "quotes"
    /\ IF options[1].convertQuotes
       THEN /\ tree' = applySmartQuotes(tree)
            /\ stages' = Append(stages, "applySmartQuotes")
       ELSE UNCHANGED <<tree, stages>>
    /\ pc' = "build"
    /\ UNCHANGED <<req, chosenPreset, options, built, blob, response, log,
                   input, output, phase>>

\* bodyMarkup and buildHtmlDocument: style synthesis, sanitising, assembly
Build ==
    /\ pc = "build"
    /\ built' = <<buildHtmlDocument(Serialize(tree), chosenPreset, options[1])>>
    /\ stages' = stages \o <<"buildStyleSheet", "sanitize", "assemble">>
    /\ pc' = "encode"
    /\ UNCHANGED <<req, chosenPreset, options, tree, blob, response, log,
                   input, output, phase>>

\* htmlDocx.asBlob and docxBlob.arrayBuffer() succeed
EncodeOk ==
    /\ pc = "encode"
    /\ blob' = <<asBlob(built[1].documentHtml)>>
    /\ stages' = Append(stages, "encode")
    /\ pc' = "respond"
    /\ UNCHANGED <<req, chosenPreset, options, tree, built, response, log,
                   input, output, phase>>

\* htmlDocx.asBlob or docxBlob.arrayBuffer() throws; the catch block logs it
\* and answers 500
EncodeThrows ==
    /\ pc = "encode"
    /\ stages' = Append(stages, "encode")
    /\ log' = Append(log, <<"[format-api]", "encode">>)
    /\ response' = <<PipelineError>>
    /\ pc' = "done"
    /\ UNCHANGED <<req, chosenPreset, options, tree, built, blob, input, output, phase>>

\* NextResponse.json({ base64, previewHtml, appliedPreset })
Respond ==
    /\ pc = "respond"
    /\ response' = <<Success(Base64(blob[1]), built[1].previewHtml, chosenPreset)>>
    /\ pc' = "done"
    /\ UNCHANGED <<req, chosenPreset, options, tree, stages, built, blob, log,
                   input, output, phase>>

Next ==
    \/ FormData
    \/ Validate
    \/ Decode
    \/ TidyStep
    \/ TitleCaseStep
    \/ QuotesStep
    \/ Build
    \/ EncodeOk
    \/ EncodeThrows
    \/ Respond

Spec == Init /\ [][Next]_vars

----------------------------------------------------------------------------
(* Claims about the request handler *)

Answered(status) == pc = "done" /\ Len(response) = 1 /\ response[1].status = status

\* C1: a request whose file field is absent or is no File is answered 400
\* with the validation message, and no pipeline stage runs for it: nothing is
\* decoded, transformed, styled, sanitised, assembled, encoded or logged.
C1_InvalidFileRejected ==
    (req.body = "form" /\ req.file.t # "file") =>
        /\ stages = <<>>
        /\ tree = <<>>
        /\ built = <<>>
        /\ blob = <<>>
        /\ log = <<>>
        /\ \/ pc \in {"start", "validate"} /\ response = <<>>
           \/ pc = "done" /\ response = <<ValidationError>>

\* a request whose file field is a plain string has been answered 400
C1_Witness ==
    /\ pc = "done"
    /\ req.file.t = "str"
    /\ response = <<ValidationError>>

IsFullSuccess(r) ==
    r.status = 200 /\ DOMAIN r.body = {"base64", "previewHtml", "appliedPreset"}

\* C2: every request POST handles ends in exactly one response, which is the
\* 400 validation response, a 200 response carrying base64, previewHtml and
\* appliedPreset, or the 500 response with the fixed message after the failure
\* was logged.
C2_OneOfThreeResponses ==
    pc \in {"done", "rejected"} =>
        /\ Len(response) = 1
        /\ \/ response[1] = ValidationError
           \/ IsFullSuccess(response[1])
           \/ response[1] = PipelineError /\ Len(log) = 1

\* C3: the resolved preset is the supplied value when that is classic, modern
\* or executive and "classic" otherwise, so appliedPreset is one of the three
\* and the stylesheet is built from one of the three preset records.
C3_PresetAlwaysEnumerated ==
    /\ Len(options) = 1 =>
          chosenPreset = IF req.preset.t = "str" /\ req.preset.v \in PresetIds
                         THEN req.preset.v ELSE "classic"
    /\ Answered(200) => response[1].body.appliedPreset \in PresetIds
    /\ Len(built) = 1 =>
          \E id \in PresetIds :
              \A field \in {"fontFamily", "accent", "pageMargin"} :
                  built[1].documentHtml.style[field] = PRESET_CONFIG[id][field]

OptionFields ==
    {"justify", "tidySpacing", "titleCaseHeadings", "autoNumberHeadings", "convertQuotes"}

\* the documented default of each option
OptionDefaults ==
    [justify |-> TRUE, tidySpacing |-> TRUE, titleCaseHeadings |-> TRUE,
     autoNumberHeadings |-> FALSE, convertQuotes |-> TRUE]

\* C4 as stated: an option is true when its field is "true" or "1" and has
\* its documented default when the field is absent or holds any other value.
C4_UnrecognizedFallsBackToDefault ==
    Len(options) = 1 =>
        \A f \in OptionFields :
            options[1][f] = IF req[f] \in {Str("true"), Str("1")}
                            THEN TRUE ELSE OptionDefaults[f]

\* C4 as amended: an option is true when its field is the string "true" or
\* "1", false when the field is any other string, and has its documented
\* default only when the field is absent or is not a string.
C4_OptionsParsed ==
    Len(options) = 1 =>
        \A f \in OptionFields :
            options[1][f] = IF req[f].t = "str"
                            THEN req[f].v \in {"true", "1"}
                            ELSE OptionDefaults[f]

\* options parsed from an unrecognised string, an absent field, a file entry
\* and the two true tokens
C4_Witness ==
    /\ Len(options) = 1
    /\ req.justify = Str("no") /\ ~options[1].justify
    /\ req.tidySpacing = Null /\ options[1].tidySpacing
    /\ req.titleCaseHeadings.t = "file" /\ options[1].titleCaseHeadings
    /\ req.autoNumberHeadings = Str("1") /\ options[1].autoNumberHeadings
    /\ req.convertQuotes = Str("true") /\ options[1].convertQuotes

IsSanitized(content) ==
    \A k \in 1..Len(content) : content[k].tag # "script" /\ ~content[k].onclick

\* C5: the content of the document given to the encoder and the content of
\* previewHtml are both the sanitiser's output for the transformed markup and
\* are equal; what the encoder got and what the response carries hold no
\* script element and no event-handler attribute.
C5_SanitizedContentEverywhere ==
    /\ Len(built) = 1 =>
          /\ built[1].documentHtml.content = Sanitize(Serialize(tree))
          /\ built[1].previewHtml.content = built[1].documentHtml.content
          /\ IsSanitized(built[1].documentHtml.content)
          /\ IsSanitized(built[1].previewHtml.content)
    /\ Len(blob) = 1 =>
          /\ blob[1].html.content = Sanitize(Serialize(tree))
          /\ IsSanitized(blob[1].html.content)
    /\ Answered(200) =>
          /\ response[1].body.previewHtml.content = Sanitize(Serialize(tree))
          /\ response[1].body.base64.bytes.html.content
                = response[1].body.previewHtml.content
          /\ IsSanitized(response[1].body.previewHtml.content)

\* a 200 response for a document from which the sanitiser removed something
C5_Witness ==
    /\ Answered(200)
    /\ ~IsSanitized(Serialize(tree))
    /\ Len(response[1].body.previewHtml.content) > 0

IsPrefix(a, b) == Len(a) <= Len(b) /\ SubSeq(b, 1, Len(a)) = a

\* the tree of a request after each transform, each run on its own flag
AfterSpacing ==
    IF options[1].tidySpacing THEN normalizeSpacing(Docs[req.file.v]) ELSE Docs[req.file.v]
AfterTitleCase ==
    IF options[1].titleCaseHeadings THEN applyTitleCase(AfterSpacing) ELSE AfterSpacing
AfterQuotes ==
    IF options[1].convertQuotes THEN applySmartQuotes(AfterTitleCase) ELSE AfterTitleCase

\* the stages of a request that succeeds, in their fixed order
StagesInOrder ==
    <<"decode">>
    \o (IF options[1].tidySpacing THEN <<"normalizeSpacing">> ELSE <<>>)
    \o (IF options[1].titleCaseHeadings THEN <<"applyTitleCase">> ELSE <<>>)
    \o (IF options[1].convertQuotes THEN <<"applySmartQuotes">> ELSE <<>>)
    \o <<"buildStyleSheet", "sanitize", "assemble", "encode">>

\* C6: the stages of a request run in the order decode, spacing, title case,
\* quotes, style synthesis with sanitising and assembly, encode, respond; each
\* transform runs exactly when its own flag is true, and a transform whose
\* flag is false leaves the tree as it was.
C6_StagesInOrderOnOwnFlags ==
    (Len(options) = 1 /\ req.file.v \in DOMAIN Docs) =>
        /\ IsPrefix(stages, StagesInOrder)
        /\ pc = "tidy" => tree = Docs[req.file.v]
        /\ pc = "title" => tree = AfterSpacing
        /\ pc = "quotes" => tree = AfterTitleCase
        /\ pc \in {"build", "encode", "respond", "done"} => tree = AfterQuotes
        /\ Answered(200) => stages = StagesInOrder

\* a request answered 200 with only the title-casing on, which changed the tree
C6_Witness ==
    /\ Answered(200)
    /\ ~options[1].tidySpacing
    /\ options[1].titleCaseHeadings
    /\ ~options[1].convertQuotes
    /\ tree # Docs[req.file.v]
    /\ stages = <<"decode", "applyTitleCase", "buildStyleSheet", "sanitize",
                  "assemble", "encode">>

----------------------------------------------------------------------------
(* Claims about the transforms *)

NonEmpty(word) == Len(word) > 0

\* the words of a heading: its maximal runs of non-whitespace characters
WordsOf(text) == SelectSeq(SplitSpaces(text), NonEmpty)

HasHyphen(word) == \E i \in 1..Len(word) : word[i] = "-"

IsLowerLetter(c) == \E i \in 1..26 : LowerLetters[i] = c

\* what the title-casing rule asks of the i-th of the n words of a heading
ClaimedTitleWord(word, i, n) ==
    LET lower == [j \in 1..Len(word) |-> toLowerCase(word[j])]
        segments == SplitHyphens(lower)
    IN  IF HasHyphen(word)
        THEN Join([j \in 1..Len(segments) |-> Capitalize(segments[j])], "-")
        ELSE IF i # 1 /\ i # n /\ lower \in smallWords
        THEN lower
        ELSE Capitalize(lower)

\* C7: for every heading text, leading or trailing whitespace included, the
\* words of the title-cased heading are the words of the heading with the
\* first and the last word never left lowercase, every other connector word
\* lowercase, every remaining word capitalised and the rest lowercase, and
\* each hyphen-separated segment of a hyphenated word capitalised.
C7_TitleCaseWords ==
    phase = "out" =>
        LET before == WordsOf(Text(input[1].kids))
            after == WordsOf(output[1][1].kids)
        IN  /\ Len(after) = Len(before)
            /\ \A i \in 1..Len(before) :
                  /\ after[i] = ClaimedTitleWord(before[i], i, Len(before))
                  /\ i \in {1, Len(before)} => ~IsLowerLetter(after[i][1])

\* C8: normalizeSpacing applied to its own result returns that result: the
\* same elements in the same order with the same content.
C8_NormalizeSpacingIdempotent ==
    phase = "again" => output[2] = output[1]

\* a document that normalizeSpacing changed without emptying it
C8_Witness ==
    /\ phase = "again"
    /\ Len(output[1]) > 0
    /\ output[1] # input
    /\ \E k \in 1..Len(input) : \E i \in 1..Len(input[k].kids) : input[k].kids[i] = "~"

HasElement(t, id) == \E k \in 1..Len(t) : t[k].id = id

\* the paragraph before input[k] is a p element with text
FollowsText(t, k) ==
    k > 1 /\ t[k - 1].tag = "p" /\ Len(Trim(Text(t[k - 1].kids))) > 0

\* C9: a paragraph left empty by normalisation is removed when no paragraph
\* immediately precedes it or that paragraph has no text; when the preceding
\* paragraph has text it is still in the result, with no content.
C9_SpacerParagraphSurvives ==
    phase # "in" =>
        \A k \in 1..Len(input) :
            (input[k].tag = "p" /\ Len(NormalizeHtml(Html(input[k].kids))) = 0) =>
                IF FollowsText(input, k)
                THEN \E j \in 1..Len(output[1]) :
                        output[1][j].id = input[k].id /\ output[1][j].kids = <<>>
                ELSE ~HasElement(output[1], input[k].id)

IsBreak(token) == token = "<br>"

\* the curly quote the directional rule gives the quote at position i of kids
ClaimedQuote(kids, i) ==
    LET opening == \/ i = 1
                   \/ IsBreak(kids[i - 1])
                   \/ kids[i - 1] \in {" ", "\t", "~", "(", "[", "{", "<"}
    IN  IF kids[i] = "\"" THEN (IF opening THEN "ldq" ELSE "rdq")
        ELSE IF kids[i] = "'" THEN (IF opening THEN "lsq" ELSE "rsq")
        ELSE kids[i]

\* C10: in every text node each straight quote becomes the opening curly quote
\* of its kind at the start of the text node or directly after whitespace or an
\* opening bracket, and the closing one otherwise; no straight quote remains,
\* every other character and every child element is unchanged, and so is the
\* element's attribute value.
C10_SmartQuotesDirectional ==
    phase = "out" =>
        \A k \in 1..Len(input) :
            /\ Len(output[1]) = Len(input)
            /\ output[1][k].title = input[k].title
            /\ output[1][k].tag = input[k].tag
            /\ Len(output[1][k].kids) = Len(input[k].kids)
            /\ \A i \in 1..Len(input[k].kids) :
                  /\ output[1][k].kids[i] = ClaimedQuote(input[k].kids, i)
                  /\ output[1][k].kids[i] \notin {"\"", "'"}

\* an element with a quoted attribute whose text got an opening and a closing quote
C10_Witness ==
    /\ phase = "out"
    /\ Len(input[1].title) > 0
    /\ \E i, j \in 1..Len(output[1][1].kids) :
          /\ output[1][1].kids[i] \in {"ldq", "lsq"}
          /\ output[1][1].kids[j] \in {"rdq", "rsq"}

====
